---- MODULE Spec2Model ----
(***************************************************************************)
(* A model of the chairvise CSV analyzers getAuthorInfo, getReviewInfo and *)
(* getSubmissionInfo.                                                      *)
(*                                                                         *)
(* The analyzers are modelled in two layers, split at the call of          *)
(* Papa.parse (an external library):                                       *)
(*   - the text layer: the upload's text and the text handed to the        *)
(*     parser (the header replacement of getAuthorInfo/getSubmissionInfo); *)
(*   - the record layer: the rows the parser returns and everything the    *)
(*     analyzers compute from them.                                        *)
(* Numbers are exact rationals [n, d]; d = 0 stands for a not-a-number or  *)
(* infinite quotient.  JavaScript's doubles differ from them only by       *)
(* rounding noise, which toFixed(1) removes for the values used here.      *)
(***************************************************************************)
EXTENDS Integers, Sequences, FiniteSets, TLC

VARIABLES pc, buffer, content, file, result, comparableAcceptanceRate, calls, firstCall

vars == <<pc, buffer, content, file, result, comparableAcceptanceRate, calls, firstCall>>

(***************************************************************************)
(* Bounds                                                                  *)
(***************************************************************************)
MaxText == 3

MaxRows == 3

MaxCalls == 3

MaxRepeatRows == 2

RECURSIVE SeqsUpTo(_, _)
SeqsUpTo(S, n) ==
  IF n = 0 THEN {<<>>}
  ELSE LET shorter == SeqsUpTo(S, n - 1)
       IN shorter \cup {Append(s, x) : s \in {t \in shorter : Len(t) = n - 1}, x \in S}

(***************************************************************************)
(* Text layer: a text is a sequence of tokens, each a carriage return, a   *)
(* line feed or a chunk of characters holding neither.                     *)
(***************************************************************************)
CR == "\r"

LF == "\n"

Tokens == {"h", "d", CR, LF}

Texts == SeqsUpTo(Tokens, MaxText)

authorHeader == "submissionId, firstName, lastName, email, country, affiliation, page, personId, corresponding"

submissionHeader == "submissionId, trackId, trackName, title, authors, submitTime, lastUpdateTime, formFields, keywords, decision, notified, reviewsSent, abstract"

\* String.prototype.indexOf: the 0-based place of the first ch, -1 when there is none
IndexOf(text, ch) ==
  IF \E i \in 1..Len(text) : text[i] = ch
  THEN (CHOOSE i \in 1..Len(text) : text[i] = ch /\ \A j \in 1..(i - 1) : text[j] # ch) - 1
  ELSE -1

\* String.prototype.substring(from), from 0-based
Substring(text, from) == SubSeq(text, from + 1, Len(text))

\* header + '\r' + content.substring(content.indexOf('\r') + 1)
ReplaceHeader(header, text) == <<header, CR>> \o Substring(text, IndexOf(text, CR) + 1)

(***************************************************************************)
(* Numbers                                                                 *)
(***************************************************************************)
\* the quotient n / d of two integers; d = 0 is NaN (n = 0) or an infinity
Rat(n, d) == IF d < 0 THEN [n |-> 0 - n, d |-> 0 - d] ELSE [n |-> n, d |-> d]

IsNaN(x) == x.d = 0 /\ x.n = 0

RatAdd(x, y) == Rat(x.n * y.d + y.n * x.d, x.d * y.d)

RatMulInt(x, k) == Rat(x.n * k, x.d)

RatDivInt(x, k) == Rat(x.n, x.d * k)

\* x / y for rationals
RatDiv(x, y) == Rat(x.n * y.d, x.d * y.n)

RatFloor(x) == x.n \div x.d

\* Number.prototype.toFixed(1), read back as a number by Math.min: the
\* nearest multiple of 0.1 (the larger of two), given in tenths
ToFixed1(x) ==
  IF x.n >= 0 THEN (20 * x.n + x.d) \div (2 * x.d)
  ELSE 0 - ((20 * (0 - x.n) + x.d) \div (2 * x.d))

\* the numeric value of a numeral string (the coercion of *, / and Math.min)
ToNumber(str) ==
  CASE str = "-3" -> 0 - 3
    [] str = "-1" -> 0 - 1
    [] str = "0" -> 0
    [] str = "1" -> 1
    [] str = "2" -> 2
    [] str = "3" -> 3
    [] str = "4" -> 4
    [] str = "5" -> 5

\* util.sum, the reducer handed to Array.prototype.reduce: a numeric fold
sum(a, b) == a + b

\* Array.prototype.reduce(sum) of a non-empty array, no initial value
RECURSIVE Reduce(_)
Reduce(seq) ==
  IF Len(seq) = 1 THEN seq[1]
  ELSE sum(Reduce(SubSeq(seq, 1, Len(seq) - 1)), seq[Len(seq)])

\* reduce of an empty array with no initial value: a TypeError
ReduceThrows(seq) == seq = <<>>

RECURSIVE ReduceRat(_)
ReduceRat(seq) ==
  IF Len(seq) = 1 THEN seq[1]
  ELSE RatAdd(ReduceRat(SubSeq(seq, 1, Len(seq) - 1)), seq[Len(seq)])

\* util.fillRange(start, end, step): start, start + step, ..., end
fillRange(start, end, step) ==
  LET steps == RatFloor(RatDiv(RatAdd(end, RatMulInt(start, 0 - 1)), step))
  IN [i \in 1..(steps + 1) |-> RatAdd(start, RatMulInt(step, i - 1))]

\* the keys of an object in for-in order, for integer keys: ascending
RECURSIVE Ascending(_)
Ascending(S) ==
  IF S = {} THEN <<>>
  ELSE LET m == CHOOSE x \in S : \A y \in S : x <= y
       IN <<m>> \o Ascending(S \ {m})

(***************************************************************************)
(* getReviewInfo, from the rows Papa.parse returns.  A row's scores field  *)
(* is given as its lines, each line as its parts around ': '.              *)
(***************************************************************************)
PaperIds == {1, 2}

Block2(s, c) == <<<<"Overall evaluation", s>>, <<"Reviewer's confidence", c>>>>

Block3(s, c, r) == Block2(s, c) \o <<<<"Recommend for best paper", r>>>>

ScoreBlocks ==
  {Block3("2", "4", "yes"), Block3("-1", "2", "no"), Block3("3", "2", "yes"),
   Block3("2", "2", "no"), Block2("3", "4"), Block2("-1", "4"),
   <<<<"Overall evaluation", "2">>>>}

ReviewRows == [paperId : PaperIds, scores : ScoreBlocks]

\* evaluation[1].split(': ') of a block without a second line: a TypeError
ReviewThrows(review) == Len(review.scores) < 2

\* RecommendOf with a fault: a review without a third line counts as a 'yes'
RecommendOfAbsentYes(evaluation) ==
  IF Len(evaluation) > 2
  THEN IF evaluation[3][2] = "yes" THEN 1 ELSE 0
  ELSE 1

RecommendOf(evaluation) ==
  IF Len(evaluation) > 2
  THEN IF evaluation[3][2] = "yes" THEN 1 ELSE 0
  ELSE 0

\* the callback of the map over one group's reviews, on one review
PushReview(acc, review) ==
  LET evaluation == review.scores
      score == evaluation[1][2]
      confidence == evaluation[2][2]
      recommend == RecommendOf(evaluation)
  IN [acc EXCEPT
        !.scores = Append(@, score),
        !.confidences = Append(@, confidence),
        !.recommends = Append(@, recommend),
        !.weightedScores = Append(@, ToNumber(score) * ToNumber(confidence)),
        !.weightedRecommends = Append(@, recommend * ToNumber(confidence))]

NoReviews ==
  [thrown |-> FALSE, scores |-> <<>>, confidences |-> <<>>, recommends |-> <<>>,
   weightedScores |-> <<>>, weightedRecommends |-> <<>>]

RECURSIVE MapReviews(_, _)
MapReviews(reviews, acc) ==
  IF reviews = <<>> THEN acc
  ELSE IF ReviewThrows(Head(reviews)) THEN [acc EXCEPT !.thrown = TRUE]
  ELSE MapReviews(Tail(reviews), PushReview(acc, Head(reviews)))

\* Math.min(((total + 3) / 0.25).toFixed(1), 23), in tenths
ScoreColumn(total) ==
  LET t == ToFixed1(RatDiv(RatAdd(total, Rat(3, 1)), Rat(1, 4)))
  IN IF t < 230 THEN t ELSE 230

\* Math.min((total / 0.1).toFixed(1), 9), in tenths
RecommendColumn(total) ==
  LET t == ToFixed1(RatDiv(total, Rat(1, 10)))
  IN IF t < 90 THEN t ELSE 90

\* array[column] += 1, the column in tenths: an element of the array is
\* incremented; any other key becomes a property holding NaN
Increment(array, column) ==
  IF column % 10 = 0 /\ column \div 10 \in 0..(Len(array.items) - 1)
  THEN [array EXCEPT !.items[column \div 10 + 1] = RatAdd(@, Rat(1, 1))]
  ELSE [array EXCEPT !.props = @ \cup {column}]

ArrayOf(items) == [items |-> items, props |-> {}]

NumbersOf(strs) == [i \in 1..Len(strs) |-> ToNumber(strs[i])]

\* the body of the loop over the groups, on the group of one paperId
GroupStep(acc, submissionId, reviews) ==
  LET m == MapReviews(reviews, NoReviews)
      confidenceSum == Reduce(NumbersOf(m.confidences))
      totalWeightedScore == Rat(Reduce(m.weightedScores), confidenceSum)
      totalWeightedRecommend == Rat(Reduce(m.weightedRecommends), confidenceSum)
      scoreColumn == ScoreColumn(totalWeightedScore)
      recommendColumn == RecommendColumn(totalWeightedRecommend)
  IN IF m.thrown THEN [acc EXCEPT !.thrown = TRUE]
     ELSE [acc EXCEPT
             !.confidenceList = Append(@, Rat(confidenceSum, Len(m.confidences))),
             !.scoreList = Append(@, totalWeightedScore),
             !.recommendList = Append(@, totalWeightedRecommend),
             !.scoreDistributionCounts = Increment(@, scoreColumn),
             !.recommendDistributionCounts = Increment(@, recommendColumn),
             !.columns = @ @@ (submissionId :> [score |-> scoreColumn, recommend |-> recommendColumn]),
             !.submissionIDReviewMap = @ @@ (submissionId :>
                 [score |-> totalWeightedScore, recommend |-> totalWeightedRecommend])]

GroupOf(data, paperId) == SelectSeq(data, LAMBDA row : row.paperId = paperId)

RECURSIVE ForEachGroup(_, _, _)
ForEachGroup(keys, data, acc) ==
  IF keys = <<>> \/ acc.thrown THEN acc
  ELSE ForEachGroup(Tail(keys), data, GroupStep(acc, Head(keys), GroupOf(data, Head(keys))))

\* labels[i] = counts[i] + ' ~ ' + counts[i + 1], for i < counts.length - 1
LabelsOf(counts) == [i \in 1..(Len(counts) - 1) |-> <<counts[i], counts[i + 1]>>]

Thrown == [infoType |-> "thrown"]

getReviewInfoResult(data) ==
  LET scoreRange == fillRange(Rat(0 - 3, 1), Rat(3, 1), Rat(1, 4))
      recommendRange == fillRange(Rat(0, 1), Rat(1, 1), Rat(1, 10))
      start == [thrown |-> FALSE, confidenceList |-> <<>>, scoreList |-> <<>>,
                recommendList |-> <<>>,
                scoreDistributionCounts |-> ArrayOf(scoreRange),
                recommendDistributionCounts |-> ArrayOf(recommendRange),
                columns |-> <<>>, submissionIDReviewMap |-> <<>>]
      keys == Ascending({data[i].paperId : i \in 1..Len(data)})
      acc == ForEachGroup(keys, data, start)
  IN IF acc.thrown \/ ReduceThrows(acc.scoreList) THEN Thrown
     ELSE [infoType |-> "review",
           infoData |->
             [IDReviewMap |-> acc.submissionIDReviewMap,
              scoreList |-> acc.scoreList,
              meanScore |-> RatDivInt(ReduceRat(acc.scoreList), Len(acc.scoreList)),
              meanConfidence |-> RatDivInt(ReduceRat(acc.confidenceList), Len(acc.confidenceList)),
              recommendList |-> acc.recommendList,
              scoreDistribution |-> [labels |-> LabelsOf(scoreRange),
                                     counts |-> acc.scoreDistributionCounts],
              recommendDistribution |-> [labels |-> LabelsOf(recommendRange),
                                         counts |-> acc.recommendDistributionCounts]],
           columns |-> acc.columns]

(***************************************************************************)
(* getSubmissionInfo, from the rows Papa.parse returns.  A submitTime is   *)
(* a sequence of tokens: 0 is a space, any other number a chunk of fixed   *)
(* width without spaces, numbered in the order of its text.  The sorted    *)
(* keyword lists and the author statistics, which no property here reads,  *)
(* are left out of the result.                                             *)
(***************************************************************************)
TrackNames == {"Full Papers", "Short Papers", "Posters"}

Decisions == {"accept", "reject", "borderline"}

Keywords == [isString |-> TRUE, lines |-> <<"Data Mining", "search">>]

NoKeywords == [isString |-> FALSE, lines |-> <<>>]

SubmissionRows ==
  [trackName : TrackNames, decision : Decisions, keywords : {Keywords},
   submitTime : {<<20200101, 0, 1000>>}]
  \cup [trackName : {"Full Papers"}, decision : {"accept"}, keywords : {Keywords},
        submitTime : {<<20200101, 0, 1100>>, <<20200102, 0, 900>>}]
  \cup [trackName : {"Full Papers"}, decision : Decisions, keywords : {NoKeywords},
        submitTime : {<<20200101, 0, 1000>>}]

ToLowerCase(str) ==
  CASE str = "Data Mining" -> "data mining"
    [] OTHER -> str

\* keywords.split(/[\r\n]+/).map(x => x.toLowerCase())
KeywordsOf(row) == [i \in 1..Len(row.keywords.lines) |-> ToLowerCase(row.keywords.lines[i])]

\* submitTime.split(' ')[0]
DateOf(submitTime) ==
  IF \E i \in 1..Len(submitTime) : submitTime[i] = 0
  THEN SubSeq(submitTime, 1,
         (CHOOSE i \in 1..Len(submitTime) :
            submitTime[i] = 0 /\ \A j \in 1..(i - 1) : submitTime[j] # 0) - 1)
  ELSE submitTime

\* SubmissionThrows with a fault: the keywords are split only in the branches
\* of the rejected and of the accepted rows
SubmissionThrowsIfDecided(row) ==
  ~row.keywords.isString /\ row.decision \in {"accept", "reject"}

\* row.keywords.split of a keywords field that is no string: a TypeError
SubmissionThrows(row) == ~row.keywords.isString

\* IsAccepted with a fault: every row that is not rejected counts as accepted
IsAcceptedUnlessRejected(row) == row.decision # "reject"

\* row.decision === 'accept'
IsAccepted(row) == row.decision = "accept"

\* the callback of the map over the rows, on one row
PushSubmission(acc, row) ==
  LET byDecision ==
        IF row.decision = "reject"
        THEN [acc EXCEPT !.rejectedSubs = Append(@, row),
                         !.rejectedKeywords = @ \o KeywordsOf(row)]
        ELSE IF IsAccepted(row)
        THEN [acc EXCEPT !.acceptedSubs = Append(@, row),
                         !.acceptedKeywords = @ \o KeywordsOf(row)]
        ELSE acc
  IN [byDecision EXCEPT
        !.allKeywords = @ \o KeywordsOf(row),
        !.trackNames = Append(@, row.trackName),
        !.submissionTimes = Append(@, DateOf(row.submitTime)),
        !.lastUpdateTimes = Append(@, DateOf(row.submitTime))]

NoSubmissions ==
  [thrown |-> FALSE, acceptedSubs |-> <<>>, rejectedSubs |-> <<>>,
   submissionTimes |-> <<>>, lastUpdateTimes |-> <<>>, acceptedKeywords |-> <<>>,
   rejectedKeywords |-> <<>>, allKeywords |-> <<>>, trackNames |-> <<>>]

RECURSIVE MapSubmissions(_, _)
MapSubmissions(rows, acc) ==
  IF rows = <<>> THEN acc
  ELSE IF SubmissionThrows(Head(rows)) THEN [acc EXCEPT !.thrown = TRUE]
  ELSE MapSubmissions(Tail(rows), PushSubmission(acc, Head(rows)))

\* _.countBy
countBy(seq) ==
  [k \in {seq[i] : i \in 1..Len(seq)} |-> Cardinality({i \in 1..Len(seq) : seq[i] = k})]

\* the order of strings, on sequences of chunks
RECURSIVE KeyLess(_, _)
KeyLess(a, b) ==
  IF b = <<>> THEN FALSE
  ELSE IF a = <<>> THEN TRUE
  ELSE IF Head(a) # Head(b) THEN Head(a) < Head(b)
  ELSE KeyLess(Tail(a), Tail(b))

\* util.getSortedArrayFromMapUsingKey: the [key, count] pairs, by key ascending
RECURSIVE getSortedArrayFromMapUsingKey(_)
getSortedArrayFromMapUsingKey(map) ==
  IF DOMAIN map = {} THEN <<>>
  ELSE LET m == CHOOSE k \in DOMAIN map : \A o \in DOMAIN map : o = k \/ KeyLess(k, o)
       IN <<<<m, map[m]>>>> \o
          getSortedArrayFromMapUsingKey([k \in DOMAIN map \ {m} |-> map[k]])

\* Accumulate with a fault: the count of the date alone, no running total
AccumulatePerDate(cumulative, element) == element[2]

\* cumulative += element[1], on one element
Accumulate(cumulative, element) == cumulative + element[2]

\* the map that pushes {x: element[0], y: cumulative} for every element
RECURSIVE Cumulate(_, _)
Cumulate(stamps, cumulative) ==
  IF stamps = <<>> THEN <<>>
  ELSE LET c == Accumulate(cumulative, Head(stamps))
       IN <<[x |-> Head(stamps)[1], y |-> c]>> \o Cumulate(Tail(stamps), c)

\* the keys of _.groupBy in for-in order, for keys that are no integers:
\* the order of first occurrence
RECURSIVE FirstSeen(_)
FirstSeen(seq) ==
  IF seq = <<>> THEN <<>>
  ELSE LET front == FirstSeen(SubSeq(seq, 1, Len(seq) - 1))
           last == seq[Len(seq)]
       IN IF \E i \in 1..Len(front) : front[i] = last THEN front ELSE Append(front, last)

\* the literal of the historical acceptance rates
ComparableLiteral ==
  [year |-> <<2010, 2011, 2012, 2013, 2014, 2015, 2016, 2017, 2018>>]
  @@ ("Full Papers" :>
        <<Rat(29, 100), Rat(28, 100), Rat(27, 100), Rat(29, 100),
          Rat(29, 100), Rat(30, 100), Rat(29, 100), Rat(30, 100)>>)
  @@ ("Short Papers" :>
        <<Rat(29, 100), Rat(37, 100), Rat(31, 100), Rat(31, 100),
          Rat(32, 100), Rat(50, 100), Rat(35, 100), Rat(32, 100)>>)

\* ComparableAtEntry with a fault: one table for all calls, as of a constant
\* declared outside the function
ComparableKept(previous) == previous

\* const comparableAcceptanceRate = {...}: every call builds the table anew,
\* whatever table the call before left
ComparableAtEntry(previous) == ComparableLiteral

\* IsComparable with a fault: the rate of 'Short Papers' is never pushed
IsComparableFullOnly(paperGroup) == paperGroup = "Full Papers"

\* whether this year's rate of a track is pushed on the table
IsComparable(paperGroup) == paperGroup = "Full Papers" \/ paperGroup = "Short Papers"

\* the body of the loop over the track groups, on one track
TrackStep(acc, paperGroup, rows) ==
  LET acceptedPapersThisTrack == SelectSeq(rows, IsAccepted)
      rate == Rat(Len(acceptedPapersThisTrack), Len(rows))
  IN [acceptanceRateByTrack |-> acc.acceptanceRateByTrack @@ (paperGroup :> rate),
      comparableAcceptanceRate |->
        IF IsComparable(paperGroup)
        THEN [acc.comparableAcceptanceRate EXCEPT ![paperGroup] = Append(@, rate)]
        ELSE acc.comparableAcceptanceRate]

TrackOf(data, trackName) == SelectSeq(data, LAMBDA row : row.trackName = trackName)

RECURSIVE ForEachTrack(_, _, _)
ForEachTrack(keys, data, acc) ==
  IF keys = <<>> THEN acc
  ELSE ForEachTrack(Tail(keys), data, TrackStep(acc, Head(keys), TrackOf(data, Head(keys))))

getSubmissionInfoResult(data, previous) ==
  LET m == MapSubmissions(data, NoSubmissions)
      timestamps == getSortedArrayFromMapUsingKey(countBy(m.submissionTimes))
      lastEditStamps == getSortedArrayFromMapUsingKey(countBy(m.lastUpdateTimes))
      tracks == ForEachTrack(FirstSeen(m.trackNames), data,
                  [acceptanceRateByTrack |-> <<>>,
                   comparableAcceptanceRate |-> ComparableAtEntry(previous)])
  IN IF m.thrown THEN Thrown
     ELSE [infoType |-> "submission",
           infoData |->
             [acceptanceRate |-> Rat(Len(m.acceptedSubs), Len(data)),
              overallKeywordMap |-> countBy(m.allKeywords),
              acceptedKeywordMap |-> countBy(m.acceptedKeywords),
              rejectedKeywordMap |-> countBy(m.rejectedKeywords),
              acceptanceRateByTrack |-> tracks.acceptanceRateByTrack,
              timeSeries |-> Cumulate(timestamps, 0),
              lastEditSeries |-> Cumulate(lastEditStamps, 0),
              comparableAcceptanceRate |-> tracks.comparableAcceptanceRate]]

(***************************************************************************)
(* getAuthorInfo, from the rows Papa.parse returns.  A name is the         *)
(* sequence of the strings concatenated to it.                             *)
(***************************************************************************)
AuthorRows ==
  [firstName : {"Jane", "John"}, lastName : {"Doe"}, country : {"US", "SG"},
   affiliation : {"MIT"}]

\* the entries of _.countBy(seq), in the order of the object's keys (for keys
\* that are no integers: the order of first occurrence)
EntriesOf(seq) ==
  LET keys == FirstSeen(seq)
      counts == countBy(seq)
  IN [i \in 1..Len(keys) |-> <<keys[i], counts[keys[i]]>>]

\* util.getSortedArrayFromMapUsingCount: the [label, count] pairs by count
\* descending, equal counts in the order of the map
RECURSIVE getSortedArrayFromMapUsingCount(_)
getSortedArrayFromMapUsingCount(entries) ==
  IF entries = <<>> THEN <<>>
  ELSE LET i == CHOOSE k \in 1..Len(entries) :
                  /\ \A o \in 1..Len(entries) : entries[o][2] <= entries[k][2]
                  /\ \A o \in 1..(k - 1) : entries[o][2] < entries[k][2]
       IN <<entries[i]>> \o
          getSortedArrayFromMapUsingCount(
            SubSeq(entries, 1, i - 1) \o SubSeq(entries, i + 1, Len(entries)))

\* the labels and the data pushed for the pairs of a sorted list
Top(sorted) ==
  [labels |-> [i \in 1..Len(sorted) |-> sorted[i][1]],
   data |-> [i \in 1..Len(sorted) |-> sorted[i][2]]]

getAuthorInfoResult(data) ==
  LET authors == [i \in 1..Len(data) |-> <<data[i].firstName, " ", data[i].lastName>>]
      countries == [i \in 1..Len(data) |-> data[i].country]
      affiliations == [i \in 1..Len(data) |-> data[i].affiliation]
  IN [infoType |-> "author",
      infoData |->
        [topAuthors |-> Top(getSortedArrayFromMapUsingCount(EntriesOf(authors))),
         topCountries |-> Top(getSortedArrayFromMapUsingCount(EntriesOf(countries))),
         topAffiliations |-> Top(getSortedArrayFromMapUsingCount(EntriesOf(affiliations)))]]

(***************************************************************************)
(* The calls.  A file is the analyzer it is uploaded to and the rows the   *)
(* parser returns for it.  comparableAcceptanceRate is the table of the    *)
(* last call of getSubmissionInfo that built one (the literal before any). *)
(***************************************************************************)
ReviewFiles == [analyzer : {"review"}, data : SeqsUpTo(ReviewRows, MaxRows)]

SubmissionFiles == [analyzer : {"submission"}, data : SeqsUpTo(SubmissionRows, MaxRows)]

AuthorFiles == [analyzer : {"author"}, data : SeqsUpTo(AuthorRows, MaxRows)]

Files == AuthorFiles \cup ReviewFiles \cup SubmissionFiles

\* the files of the runs of several calls
RepeatRows ==
  [trackName : {"Full Papers"}, decision : {"accept", "reject"},
   keywords : {Keywords}, submitTime : {<<20200101, 0, 1000>>}]
  \cup [trackName : {"Posters"}, decision : {"accept"},
        keywords : {Keywords}, submitTime : {<<20200101, 0, 1000>>}]

RepeatReviews == [paperId : {1}, scores : {Block3("2", "4", "yes"), Block3("-1", "2", "no")}]

RepeatAuthors ==
  [firstName : {"Jane"}, lastName : {"Doe"}, country : {"US"}, affiliation : {"MIT"}]

RepeatFiles ==
  [analyzer : {"submission"}, data : SeqsUpTo(RepeatRows, MaxRepeatRows)]
  \cup [analyzer : {"review"}, data : SeqsUpTo(RepeatReviews, MaxRepeatRows)]
  \cup [analyzer : {"author"}, data : SeqsUpTo(RepeatAuthors, MaxRepeatRows)]

NoText == <<"-">>

NoFile == [analyzer |-> "none", data |-> <<>>]

NoCall == [file |-> NoFile, result |-> [infoType |-> "none"]]

NoData == [infoType |-> "none"]

InitHeader ==
  /\ pc = "uploaded"
  /\ buffer \in Texts
  /\ content = NoText
  /\ file = NoFile
  /\ result = NoData
  /\ comparableAcceptanceRate = ComparableLiteral
  /\ calls = 0
  /\ firstCall = NoCall

getAuthorInfoContent ==
  /\ pc = "uploaded"
  /\ content' = ReplaceHeader(authorHeader, buffer)
  /\ pc' = "author content"
  /\ UNCHANGED <<buffer, file, result, comparableAcceptanceRate, calls, firstCall>>

getSubmissionInfoContent ==
  /\ pc = "uploaded"
  /\ content' = ReplaceHeader(submissionHeader, buffer)
  /\ pc' = "submission content"
  /\ UNCHANGED <<buffer, file, result, comparableAcceptanceRate, calls, firstCall>>

NextHeader == getAuthorInfoContent \/ getSubmissionInfoContent

SpecHeader == InitHeader /\ [][NextHeader]_vars

InitWith(files) ==
  /\ pc = "ready"
  /\ buffer = NoText
  /\ content = NoText
  /\ file \in files
  /\ result = NoData
  /\ comparableAcceptanceRate = ComparableLiteral
  /\ calls = 0
  /\ firstCall = NoCall

Init == InitWith(Files)

Finish(outcome) ==
  /\ result' = outcome
  /\ pc' = IF outcome = Thrown THEN "thrown" ELSE "returned"
  /\ calls' = calls + 1
  /\ firstCall' = IF calls = 0 THEN [file |-> file, result |-> outcome] ELSE firstCall

getAuthorInfo ==
  /\ pc = "ready"
  /\ file.analyzer = "author"
  /\ Finish(getAuthorInfoResult(file.data))
  /\ UNCHANGED <<buffer, content, file, comparableAcceptanceRate>>

getReviewInfo ==
  /\ pc = "ready"
  /\ file.analyzer = "review"
  /\ Finish(getReviewInfoResult(file.data))
  /\ UNCHANGED <<buffer, content, file, comparableAcceptanceRate>>

getSubmissionInfo ==
  /\ pc = "ready"
  /\ file.analyzer = "submission"
  /\ LET outcome == getSubmissionInfoResult(file.data, comparableAcceptanceRate)
     IN /\ Finish(outcome)
        /\ comparableAcceptanceRate' =
             IF outcome = Thrown THEN comparableAcceptanceRate
             ELSE outcome.infoData.comparableAcceptanceRate
  /\ UNCHANGED <<buffer, content, file>>

Next == getAuthorInfo \/ getReviewInfo \/ getSubmissionInfo

Spec == Init /\ [][Next]_vars

\* the next upload, after a call has returned or thrown
Upload ==
  /\ pc \in {"returned", "thrown"}
  /\ calls < MaxCalls
  /\ file' \in RepeatFiles
  /\ pc' = "ready"
  /\ result' = NoData
  /\ UNCHANGED <<buffer, content, comparableAcceptanceRate, calls, firstCall>>

InitRepeat == InitWith(RepeatFiles)

NextRepeat == getAuthorInfo \/ getReviewInfo \/ getSubmissionInfo \/ Upload

SpecRepeat == InitRepeat /\ [][NextRepeat]_vars

(***************************************************************************)
(* C3                                                                      *)
(***************************************************************************)
IsTerminator(ch) == ch = CR \/ ch = LF

\* the physical lines of a text, whose lines end in CR, LF or CRLF
RECURSIVE Lines(_)
Lines(t) ==
  IF t = <<>> THEN <<>>
  ELSE IF \A i \in 1..Len(t) : ~IsTerminator(t[i]) THEN <<t>>
  ELSE LET k == CHOOSE i \in 1..Len(t) :
                  IsTerminator(t[i]) /\ \A j \in 1..(i - 1) : ~IsTerminator(t[j])
           e == IF t[k] = CR /\ k < Len(t) /\ t[k + 1] = LF THEN k + 1 ELSE k
       IN <<SubSeq(t, 1, k - 1)>> \o Lines(SubSeq(t, e + 1, Len(t)))

HeaderOf(p) == IF p = "author content" THEN authorHeader ELSE submissionHeader

\* C3: for every input text with at least one line, the text handed to the
\* parser is the fixed column-name line followed by the input without its
\* first physical line, whether the lines end in CR, LF or CRLF.
C3_HeaderReplaced ==
  (pc \in {"author content", "submission content"} /\ buffer # <<>>)
    => Lines(content) = <<<<HeaderOf(pc)>>>> \o Tail(Lines(buffer))

(***************************************************************************)
(* Properties of getReviewInfo                                             *)
(***************************************************************************)
Done == pc \in {"returned", "thrown"}

ReturnedBy(analyzer) == pc = "returned" /\ file.analyzer = analyzer

RatEq(x, y) == x.d > 0 /\ y.d > 0 /\ x.n * y.d = y.n * x.d

RECURSIVE SumOver(_, _)
SumOver(S, f) ==
  IF S = {} THEN 0
  ELSE LET i == CHOOSE j \in S : TRUE IN f[i] + SumOver(S \ {i}, f)

RowsOf(paperId) == {i \in 1..Len(file.data) : file.data[i].paperId = paperId}

PapersOf == {file.data[i].paperId : i \in 1..Len(file.data)}

Floor23(total) ==
  LET f == RatFloor(RatDiv(RatAdd(total, Rat(3, 1)), Rat(1, 4))) IN IF f < 23 THEN f ELSE 23

Floor9(total) ==
  LET f == RatFloor(RatDiv(total, Rat(1, 10))) IN IF f < 9 THEN f ELSE 9

\* C1: for every submission group the index used on scoreDistribution.counts
\* is the integer min(floor((score + 3) / 0.25), 23) of [0, 23], and the index
\* used on recommendDistribution.counts is the integer
\* min(floor(recommend / 0.1), 9) of [0, 9]: one existing bucket is incremented.
C1_ColumnsAreBuckets ==
  ReturnedBy("review") =>
    \A p \in DOMAIN result.columns :
      LET used == result.columns[p]
          total == result.infoData.IDReviewMap[p]
      IN /\ used.score % 10 = 0
         /\ used.score \div 10 \in 0..23
         /\ used.score \div 10 = Floor23(total.score)
         /\ used.recommend % 10 = 0
         /\ used.recommend \div 10 \in 0..9
         /\ used.recommend \div 10 = Floor9(total.recommend)

ScoreAt(i) == ToNumber(file.data[i].scores[1][2])

ConfidenceAt(i) == ToNumber(file.data[i].scores[2][2])

YesAt(i) ==
  IF Len(file.data[i].scores) >= 3 /\ file.data[i].scores[3][2] = "yes" THEN 1 ELSE 0

\* C2: for every group of reviews sharing a paperId, IDReviewMap[paperId].score
\* is the sum of score * confidence over the sum of confidence, and .recommend
\* the sum of recommend * confidence over the sum of confidence, over all the
\* reviews of the group; recommend is 1 exactly when the third line is 'yes',
\* and 0 when it is anything else or absent.
C2_WeightedAverages ==
  ReturnedBy("review") =>
    /\ DOMAIN result.infoData.IDReviewMap = PapersOf
    /\ \A p \in PapersOf :
         LET rows == RowsOf(p)
             weights == SumOver(rows, [i \in rows |-> ConfidenceAt(i)])
             entry == result.infoData.IDReviewMap[p]
         IN /\ RatEq(entry.score,
                     Rat(SumOver(rows, [i \in rows |-> ScoreAt(i) * ConfidenceAt(i)]), weights))
            /\ RatEq(entry.recommend,
                     Rat(SumOver(rows, [i \in rows |-> YesAt(i) * ConfidenceAt(i)]), weights))

\* reviews (2, 4, yes) and (-1, 2, no) of one paper: score 1, recommend 4/6;
\* and a paper whose review has no third line
C2_Witness ==
  /\ ReturnedBy("review")
  /\ \E p \in PapersOf :
       /\ Cardinality(RowsOf(p)) = 2
       /\ RatEq(result.infoData.IDReviewMap[p].score, Rat(1, 1))
       /\ RatEq(result.infoData.IDReviewMap[p].recommend, Rat(4, 6))
  /\ \E i \in 1..Len(file.data) : Len(file.data[i].scores) = 2

ItemsSum(array) ==
  LET total == ReduceRat(array.items) IN total

\* C9: scoreDistribution.counts and .labels have 24 entries each,
\* recommendDistribution.counts and .labels 10 each, and the counts of either
\* distribution add up to the number of paperId groups.
C9_BucketArrays ==
  ReturnedBy("review") =>
    LET score == result.infoData.scoreDistribution
        recommend == result.infoData.recommendDistribution
    IN /\ Len(score.counts.items) = 24
       /\ Len(score.labels) = 24
       /\ Len(recommend.counts.items) = 10
       /\ Len(recommend.labels) = 10
       /\ RatEq(ItemsSum(score.counts), Rat(Cardinality(PapersOf), 1))
       /\ RatEq(ItemsSum(recommend.counts), Rat(Cardinality(PapersOf), 1))

(***************************************************************************)
(* Properties of getSubmissionInfo                                         *)
(***************************************************************************)
DateAt(i) == DateOf(file.data[i].submitTime)

DatesOf == {DateAt(i) : i \in 1..Len(file.data)}

\* C4: timeSeries has one entry per distinct submit date, its x strictly
\* ascending, each y the number of rows submitted on or before x; so y is
\* strictly increasing and the last y is the number of rows.
C4_TimeSeries ==
  ReturnedBy("submission") =>
    LET series == result.infoData.timeSeries
    IN /\ Len(series) = Cardinality(DatesOf)
       /\ {series[i].x : i \in 1..Len(series)} = DatesOf
       /\ \A i, j \in 1..Len(series) :
            i < j => KeyLess(series[i].x, series[j].x) /\ series[i].y < series[j].y
       /\ \A i \in 1..Len(series) :
            series[i].y = Cardinality({k \in 1..Len(file.data) :
                             DateAt(k) = series[i].x \/ KeyLess(DateAt(k), series[i].x)})
       /\ series # <<>> => series[Len(series)].y = Len(file.data)

\* dates 2020-01-01, 2020-01-01, 2020-01-02
C4_Witness ==
  /\ ReturnedBy("submission")
  /\ result.infoData.timeSeries =
       <<[x |-> <<20200101>>, y |-> 2], [x |-> <<20200102>>, y |-> 3]>>

AcceptedIn(rows) == Cardinality({i \in rows : file.data[i].decision = "accept"})

TrackRows(t) == {i \in 1..Len(file.data) : file.data[i].trackName = t}

TracksOf == {file.data[i].trackName : i \in 1..Len(file.data)}

IsRate(x) == x.d > 0 /\ 0 <= x.n /\ x.n <= x.d

\* C5: for every non-empty set of rows, acceptanceRate is the number of rows
\* whose decision is exactly 'accept' over the number of rows, and
\* acceptanceRateByTrack[track] the same over the rows of the track, for every
\* track present; each rate lies in [0, 1].
C5_AcceptanceRates ==
  (ReturnedBy("submission") /\ file.data # <<>>) =>
    LET info == result.infoData
    IN /\ RatEq(info.acceptanceRate, Rat(AcceptedIn(1..Len(file.data)), Len(file.data)))
       /\ IsRate(info.acceptanceRate)
       /\ DOMAIN info.acceptanceRateByTrack = TracksOf
       /\ \A t \in TracksOf :
            /\ RatEq(info.acceptanceRateByTrack[t],
                     Rat(AcceptedIn(TrackRows(t)), Cardinality(TrackRows(t))))
            /\ IsRate(info.acceptanceRateByTrack[t])

\* a track with one accepted row and one row neither accepted nor rejected
C5_Witness ==
  /\ ReturnedBy("submission")
  /\ \E t \in TracksOf :
       /\ RatEq(result.infoData.acceptanceRateByTrack[t], Rat(1, 2))
       /\ \E i \in TrackRows(t) : file.data[i].decision = "borderline"
  /\ RatEq(result.infoData.acceptanceRate, Rat(1, 3))

\* C10 as claimed: the series of 'Full Papers' and of 'Short Papers' have as
\* many entries as year, whether or not a track of that name occurs.
C10_SeriesMatchYears ==
  ReturnedBy("submission") =>
    LET table == result.infoData.comparableAcceptanceRate
    IN /\ Len(table["Full Papers"]) = Len(table.year)
       /\ Len(table["Short Papers"]) = Len(table.year)

\* C10, amended: the series of 'Full Papers' and of 'Short Papers' hold the 8
\* historical rates, followed by this year's rate of the track (once) exactly
\* when a row of that track name occurs; only then does a series have as many
\* entries as year, which has 9.
C10_SeriesLength ==
  ReturnedBy("submission") =>
    LET table == result.infoData.comparableAcceptanceRate
    IN /\ Len(table.year) = 9
       /\ \A t \in {"Full Papers", "Short Papers"} :
            /\ SubSeq(table[t], 1, 8) = ComparableLiteral[t]
            /\ IF t \in TracksOf
               THEN /\ Len(table[t]) = 9
                    /\ table[t][9] = result.infoData.acceptanceRateByTrack[t]
               ELSE Len(table[t]) = 8

\* two rows of 'Full Papers' and none of 'Short Papers'
C10_Witness ==
  /\ ReturnedBy("submission")
  /\ Cardinality(TrackRows("Full Papers")) = 2
  /\ TrackRows("Short Papers") = {}
  /\ Len(result.infoData.comparableAcceptanceRate["Full Papers"]) = 9

(***************************************************************************)
(* Properties of both analyzers                                            *)
(***************************************************************************)
\* C7: on a file of zero data rows neither call throws: getSubmissionInfo
\* returns acceptanceRate = NaN, getReviewInfo returns meanScore = NaN and
\* meanConfidence = NaN.
C7_EmptyYieldsNaN ==
  (Done /\ file.analyzer \in {"review", "submission"} /\ file.data = <<>>) =>
    /\ pc = "returned"
    /\ file.analyzer = "submission" => IsNaN(result.infoData.acceptanceRate)
    /\ file.analyzer = "review" =>
         IsNaN(result.infoData.meanScore) /\ IsNaN(result.infoData.meanConfidence)

Malformed(row) ==
  CASE file.analyzer = "review" -> Len(row.scores) < 2
    [] file.analyzer = "submission" -> ~row.keywords.isString
    [] OTHER -> FALSE

\* C8: a review row whose scores block has no second line, or a submission
\* row whose keywords field is no string, at any position and with any
\* decision, makes the call throw: no infoData is returned.
C8_MalformedAborts ==
  (Done /\ \E i \in 1..Len(file.data) : Malformed(file.data[i])) =>
    pc = "thrown" /\ "infoData" \notin DOMAIN result

\* the last of three submission rows has no keywords and is neither accepted
\* nor rejected; the rows before it are well formed
C8_Witness ==
  /\ pc = "thrown"
  /\ file.analyzer = "submission"
  /\ Len(file.data) = 3
  /\ ~Malformed(file.data[1]) /\ ~Malformed(file.data[2])
  /\ Malformed(file.data[3]) /\ file.data[3].decision = "borderline"

(***************************************************************************)
(* Properties of repeated calls                                            *)
(***************************************************************************)
\* C6: a call on the file of the first call gives the result of the first
\* call, whatever calls came between; the table of historical rates starts
\* every call with its 8 entries per track, so a result never holds more than
\* 9.
C6_SameOutput ==
  /\ (Done /\ file = firstCall.file) => result = firstCall.result
  /\ ReturnedBy("submission") =>
       \A t \in {"Full Papers", "Short Papers"} :
         Len(result.infoData.comparableAcceptanceRate[t]) <= 9

\* the third call, on the file of the first call, which has a 'Full Papers'
\* row
C6_Witness ==
  /\ calls = 3
  /\ ReturnedBy("submission")
  /\ file = firstCall.file
  /\ TrackRows("Full Papers") # {}

====
